---- MODULE Spec2Model ----
(***************************************************************************)
(* Model of scripts/validate-links.py: the heading slugifier, the anchor   *)
(* extractor, the link resolver (validate_file) and the scan loop (main).  *)
(* Text is a sequence of one-character strings; a path is a sequence of    *)
(* names, each a text; the filesystem is a read-only map from paths to     *)
(* entries.                                                                *)
(***************************************************************************)
EXTENDS Integers, Sequences, FiniteSets, TLC

VARIABLES
  heading,      \* slugify_heading: the argument of the call under study
  slug1,        \* slugify_heading(heading)
  slug2,        \* slugify_heading(slugify_heading(heading))
  spc,          \* position of the slugify driver
  fs,           \* the filesystem: path -> [kind, content]; read-only
  pc,           \* position of the program
  caller,       \* who called validate_file: "main", or "direct" for another caller
  filepath,     \* validate_file: the document
  scan_root,    \* validate_file: the scan_root argument
  lines,        \* validate_file: content.split('\n')
  line_num,     \* validate_file: the 1-based number of the current line
  matches,      \* validate_file: the LINK_PATTERN matches of the current line
  mi,           \* validate_file: the index of the current match
  issues,       \* validate_file: the issue list
  origins,      \* for each issue, the (line, match) it was appended for
  consulted,    \* the paths the last reference step looked up or read
  exc,          \* the exception that ended the program, or "none"
  scan_dir,     \* main: the directory scanned
  md_files,     \* main: the sorted document list
  fi,           \* main: the index of the current document
  all_issues,   \* main: the issues of the whole scan
  all_origins,  \* for each issue of the scan, its (document index, line, match)
  link_count,   \* main: the internal links counted
  exit_code     \* main: the argument of sys.exit, or -1 while running

svars == <<heading, slug1, slug2, spc>>
fvars == <<filepath, scan_root, lines, line_num, matches, mi, issues, origins, consulted>>
mvars == <<scan_dir, md_files, fi, all_issues, all_origins, link_count, exit_code>>
vars  == <<heading, slug1, slug2, spc, fs, pc, caller, exc, fvars, mvars>>

----------------------------------------------------------------------------
(* Characters and the classes the regular expressions use.                 *)

LowerSeq == <<"a","b","c","d","e","f","g","h","i","j","k","l","m","n","o","p","q","r","s","t","u","v","w","x","y","z">>
UpperSeq == <<"A","B","C","D","E","F","G","H","I","J","K","L","M","N","O","P","Q","R","S","T","U","V","W","X","Y","Z">>
DigitSeq == <<"0","1","2","3","4","5","6","7","8","9">>

Range(f) == {f[i] : i \in DOMAIN f}

\* the backtick character (a string literal of the module cannot hold it)
BQ == "BACKTICK"


\* \s and str.strip(): the whitespace characters of the modelled alphabet
Whitespace == {" ", "\t", "\n", "\r"}

\* \w: letters, digits and the underscore
IsWordChar(c) == c \in Range(LowerSeq) \cup Range(UpperSeq) \cup Range(DigitSeq) \cup {"_"}

Min(S) == CHOOSE m \in S : \A o \in S : m <= o
Max(S) == CHOOSE m \in S : \A o \in S : m >= o

\* str.lower() on one character
LowerChar(c) ==
  IF c \in Range(UpperSeq)
  THEN LowerSeq[CHOOSE i \in DOMAIN UpperSeq : UpperSeq[i] = c]
  ELSE c

\* str.lower()
Lower(s) == [i \in DOMAIN s |-> LowerChar(s[i])]

\* str.strip(chars): drop the leading and trailing characters that are in C
StripChars(s, C) ==
  LET keep == {i \in DOMAIN s : s[i] \notin C}
  IN  IF keep = {} THEN <<>> ELSE SubSeq(s, Min(keep), Max(keep))

\* str.startswith(p)
StartsWith(s, p) == Len(p) <= Len(s) /\ SubSeq(s, 1, Len(p)) = p

\* str.endswith(p)
EndsWith(s, p) == Len(p) <= Len(s) /\ SubSeq(s, Len(s) - Len(p) + 1, Len(s)) = p

\* the text p occurs in s at position i
OccursAt(s, p, i) == i >= 1 /\ i + Len(p) - 1 <= Len(s) /\ SubSeq(s, i, i + Len(p) - 1) = p

\* Python's  p in s  on strings
Contains(s, p) == \E i \in 1..(Len(s) + 1) : OccursAt(s, p, i)

----------------------------------------------------------------------------
(* slugify_heading                                                         *)

\* re.sub(d + r'(.+?)' + d, r'\1', s) from position i on: the leftmost match
\* opens at d, takes the shortest non-empty run without a newline that is
\* followed by d, and is replaced by that run; scanning resumes after it.
RECURSIVE SubDelimFrom(_, _, _)
SubDelimFrom(s, d, i) ==
  IF i > Len(s) THEN <<>>
  ELSE LET n == Len(d)
           closers == {j \in (i + n + 1)..Len(s) : OccursAt(s, d, j)}
           j == Min(closers)
       IN  IF /\ OccursAt(s, d, i)
              /\ closers # {}
              /\ \A k \in (i + n)..(j - 1) : s[k] # "\n"
           THEN SubSeq(s, i + n, j - 1) \o SubDelimFrom(s, d, j + n)
           ELSE <<s[i]>> \o SubDelimFrom(s, d, i + 1)

SubDelim(s, d) == SubDelimFrom(s, d, 1)

\* One match of \[([^\]]{m,})\]\(([^)]+)\) anchored at position i: the display
\* text runs to the first "]", which "(" must follow, and the target is the
\* non-empty run to the first ")".  m is 0 for LINK_PATTERN and 1 for the
\* pattern of slugify_heading.
LinkAt(s, i, m) ==
  LET rbs == {j \in (i + 1)..Len(s) : s[j] = "]"}
      rb  == Min(rbs)
      rps == {k \in (rb + 2)..Len(s) : s[k] = ")"}
      rp  == Min(rps)
  IN  IF /\ i <= Len(s) /\ s[i] = "["
         /\ rbs # {}
         /\ rb - i - 1 >= m
         /\ rb + 1 <= Len(s) /\ s[rb + 1] = "("
         /\ rps # {}
         /\ rp >= rb + 3
      THEN [ok |-> TRUE, text |-> SubSeq(s, i + 1, rb - 1),
            target |-> SubSeq(s, rb + 2, rp - 1), end |-> rp]
      ELSE [ok |-> FALSE, text |-> <<>>, target |-> <<>>, end |-> i]

\* re.sub(r'\[([^\]]+)\]\([^)]+\)', r'\1', s) from position i on
RECURSIVE SubLinkFrom(_, _)
SubLinkFrom(s, i) ==
  IF i > Len(s) THEN <<>>
  ELSE LET m == LinkAt(s, i, 1)
       IN  IF m.ok THEN m.text \o SubLinkFrom(s, m.end + 1)
           ELSE <<s[i]>> \o SubLinkFrom(s, i + 1)

SubLink(s) == SubLinkFrom(s, 1)

\* re.sub(r'[^\w\s-]', '', s)
KeepChar(c) == IsWordChar(c) \/ c \in Whitespace \/ c = "-"

RemovePunct(s) == SelectSeq(s, KeepChar)

\* re.sub(r'[\s]+', '-', s) from position i on
RECURSIVE CollapseWsFrom(_, _)
CollapseWsFrom(s, i) ==
  IF i > Len(s) THEN <<>>
  ELSE IF s[i] \in Whitespace
       THEN LET rest == {j \in (i + 1)..Len(s) : s[j] \notin Whitespace}
            IN  <<"-">> \o (IF rest = {} THEN <<>> ELSE CollapseWsFrom(s, Min(rest)))
       ELSE <<s[i]>> \o CollapseWsFrom(s, i + 1)

CollapseWs(s) == CollapseWsFrom(s, 1)

\* a slugifier that trims the hyphens before it turns whitespace into
\* hyphens (lines 32 and 33 swapped)
slugify_heading_swapped(h) ==
  LET s1 == StripChars(h, Whitespace)
      s2 == SubDelim(s1, <<"*","*">>)
      s3 == SubDelim(s2, <<"*">>)
      s4 == SubDelim(s3, <<BQ>>)
      s5 == SubLink(s4)
      s6 == Lower(s5)
      s7 == RemovePunct(s6)
  IN  CollapseWs(StripChars(s7, {"-"}))

slugify_heading(h) ==
  LET s1 == StripChars(h, Whitespace)   \* heading.strip()
      s2 == SubDelim(s1, <<"*","*">>)          \* bold
      s3 == SubDelim(s2, <<"*">>)           \* italic
      s4 == SubDelim(s3, <<BQ>>)           \* inline code
      s5 == SubLink(s4)                  \* [text](target) -> text
      s6 == Lower(s5)
      s7 == RemovePunct(s6)
      s8 == CollapseWs(s7)
  IN  StripChars(s8, {"-"})

----------------------------------------------------------------------------
(* LINK_PATTERN, HEADING_PATTERN and the text helpers of validate_file.    *)

\* LINK_PATTERN.finditer(s) from position i on: the matches left to right,
\* without overlap, each with its display text and its target
RECURSIVE LinkMatchesFrom(_, _)
LinkMatchesFrom(s, i) ==
  IF i > Len(s) THEN <<>>
  ELSE LET m == LinkAt(s, i, 0)
       IN  IF m.ok
           THEN <<[text |-> m.text, target |-> m.target]>> \o LinkMatchesFrom(s, m.end + 1)
           ELSE LinkMatchesFrom(s, i + 1)

LinkMatches(s) == LinkMatchesFrom(s, 1)

\* the last position of the line that position p lies on
EndOfLine(s, p) ==
  LET nls == {j \in p..Len(s) : s[j] = "\n"}
  IN  IF nls = {} THEN Len(s) ELSE Min(nls) - 1

\* One match of ^#{1,6}\s+(.+)$ (re.MULTILINE) anchored at position i: a line
\* start, a run of 1 to 6 "#", whitespace (which may run across newlines),
\* then the captured text up to the end of a line.  When only whitespace
\* is left, \s+ gives characters back and the capture is whitespace.
HeadingAt(s, i) ==
  LET nonhash == {j \in i..Len(s) : s[j] # "#"}
      w  == IF nonhash = {} THEN Len(s) + 1 ELSE Min(nonhash)   \* first position after the "#" run
      nonws == {j \in w..Len(s) : s[j] \notin Whitespace}
      back  == {j \in (w + 1)..Len(s) : s[j] # "\n"}
      p  == IF nonws # {} THEN Min(nonws) ELSE Max(back)
  IN  IF /\ i <= Len(s)
         /\ (i = 1 \/ s[i - 1] = "\n")
         /\ w - i >= 1 /\ w - i <= 6
         /\ w <= Len(s) /\ s[w] \in Whitespace
         /\ (nonws # {} \/ back # {})
      THEN [ok |-> TRUE, text |-> SubSeq(s, p, EndOfLine(s, p)), end |-> EndOfLine(s, p)]
      ELSE [ok |-> FALSE, text |-> <<>>, end |-> i]

\* HEADING_PATTERN.finditer(content) from position i on: the captured texts
RECURSIVE HeadingTextsFrom(_, _)
HeadingTextsFrom(s, i) ==
  IF i > Len(s) THEN <<>>
  ELSE LET m == HeadingAt(s, i)
       IN  IF m.ok THEN <<m.text>> \o HeadingTextsFrom(s, m.end + 1)
           ELSE HeadingTextsFrom(s, i + 1)

HeadingTexts(s) == HeadingTextsFrom(s, 1)

\* str.split(sep) for a one-character sep, from position i on
RECURSIVE SplitFrom(_, _, _)
SplitFrom(s, sep, i) ==
  LET seps == {j \in i..Len(s) : s[j] = sep}
  IN  IF seps = {} THEN <<SubSeq(s, i, Len(s))>>
      ELSE <<SubSeq(s, i, Min(seps) - 1)>> \o SplitFrom(s, sep, Min(seps) + 1)

Split(s, sep) == SplitFrom(s, sep, 1)

\* sep.join(parts)
RECURSIVE Join(_, _)
Join(parts, sep) ==
  IF parts = <<>> THEN <<>>
  ELSE IF Len(parts) = 1 THEN parts[1]
  ELSE parts[1] \o sep \o Join(Tail(parts), sep)

\* line.strip().startswith('```')
IsFenceLine(line) == StartsWith(StripChars(line, Whitespace), <<BQ,BQ,BQ>>)

\* an external test that knows only one of the three prefixes
IsExternal_http_only(target) == StartsWith(target, <<"h","t","t","p",":","/","/">>)

\* link_target.startswith(('http://', 'https://', 'mailto:'))
IsExternal(target) ==
  \/ StartsWith(target, <<"h","t","t","p",":","/","/">>)
  \/ StartsWith(target, <<"h","t","t","p","s",":","/","/">>)
  \/ StartsWith(target, <<"m","a","i","l","t","o",":">>)

\* file_part, anchor_part = link_target.split('#', 1); anchor_part is None
\* (has |-> FALSE) when the target holds no "#"
SplitTarget(target) ==
  LET hs == {j \in DOMAIN target : target[j] = "#"}
  IN  IF hs = {}
      THEN [file_part |-> target, has |-> FALSE, anchor_part |-> <<>>]
      ELSE [file_part   |-> SubSeq(target, 1, Min(hs) - 1),
            has         |-> TRUE,
            anchor_part |-> SubSeq(target, Min(hs) + 1, Len(target))]

----------------------------------------------------------------------------
(* Paths and the filesystem.                                               *)

\* codex_root: the directory above the script's directory
codex_root == << <<"r">> >>

\* the parts of a path text: empty parts and "." are dropped, ".." is kept
PathParts(t) == SelectSeq(Split(t, "/"), LAMBDA n : n # <<>> /\ n # <<".">>)

\* base / t: an absolute t replaces base
PathJoin(base, t) == IF StartsWith(t, <<"/">>) THEN PathParts(t) ELSE base \o PathParts(t)

\* Path.resolve() without symbolic links: ".." drops the part before it
RECURSIVE Resolve(_)
Resolve(p) ==
  IF p = <<>> THEN <<>>
  ELSE LET front == Resolve(SubSeq(p, 1, Len(p) - 1))
           last  == p[Len(p)]
       IN  IF last = <<".",".">>
           THEN (IF front = <<>> THEN <<>> ELSE SubSeq(front, 1, Len(front) - 1))
           ELSE Append(front, last)

\* Path.parent and Path.name
Parent(p) == IF p = <<>> THEN <<>> ELSE SubSeq(p, 1, Len(p) - 1)
Name(p)   == IF p = <<>> THEN <<>> ELSE p[Len(p)]

\* p lies under (or is) root: what Path.relative_to needs to succeed
IsUnder(p, root) == Len(root) <= Len(p) /\ SubSeq(p, 1, Len(root)) = root

\* str(p.relative_to(root)); "." for the root itself
RelativeStr(p, root) ==
  IF Len(p) = Len(root) THEN <<".">> ELSE Join(SubSeq(p, Len(root) + 1, Len(p)), <<"/">>)

\* the code points of the printable characters, in order
AsciiSeq == <<" ","!","\"","#","$","%","&","'","(",")","*","+",",","-",".","/","0","1","2","3","4","5","6","7","8","9",":",";","<","=",">","?","@","A","B","C","D","E","F","G","H","I","J","K","L","M","N","O","P","Q","R","S","T","U","V","W","X","Y","Z","[","\\","]","^","_",BQ,"a","b","c","d","e","f","g","h","i","j","k","l","m","n","o","p","q","r","s","t","u","v","w","x","y","z","{","|","}","~">>

Ord(c) == CHOOSE i \in DOMAIN AsciiSeq : AsciiSeq[i] = c

\* a < b on str: by code point, a proper prefix first
RECURSIVE TextLess(_, _)
TextLess(a, b) ==
  IF b = <<>> THEN FALSE
  ELSE IF a = <<>> THEN TRUE
  ELSE IF a[1] # b[1] THEN Ord(a[1]) < Ord(b[1])
  ELSE TextLess(Tail(a), Tail(b))

\* a < b on Path: the parts compared in order
RECURSIVE PathLess(_, _)
PathLess(a, b) ==
  IF b = <<>> THEN FALSE
  ELSE IF a = <<>> THEN TRUE
  ELSE IF a[1] # b[1] THEN TextLess(a[1], b[1])
  ELSE PathLess(Tail(a), Tail(b))

\* sorted(paths)
RECURSIVE SortedPaths(_)
SortedPaths(S) ==
  IF S = {} THEN <<>>
  ELSE LET m == CHOOSE m \in S : \A o \in S \ {m} : PathLess(m, o)
       IN  <<m>> \o SortedPaths(S \ {m})

\* Path.exists(), Path.is_file(), and whether read_text(encoding='utf-8')
\* returns (a directory or a missing file raises OSError, undecodable bytes
\* raise UnicodeDecodeError)
Exists(p)   == p \in DOMAIN fs
IsFile(p)   == Exists(p) /\ fs[p].kind \in {"text", "binary"}
IsDir(p)    == Exists(p) /\ fs[p].kind = "dir"
Readable(p) == Exists(p) /\ fs[p].kind = "text"

\* [q.name for q in p.iterdir()], as a set: the order is the filesystem's
Siblings(p) == {Name(q) : q \in {q \in DOMAIN fs : q # <<>> /\ Parent(q) = p}}

\* scan_dir.rglob('*.md') without the paths that have a '.git' part
MdFiles(dir) ==
  {p \in DOMAIN fs : /\ Len(p) > Len(dir) /\ IsUnder(p, dir)
                     /\ EndsWith(Name(p), <<".","m","d">>)
                     /\ \A i \in DOMAIN p : p[i] # <<".","g","i","t">>}

----------------------------------------------------------------------------
(* extract_anchors                                                         *)

extract_anchors(p) ==
  IF ~Readable(p) THEN {}
  ELSE {slugify_heading(h) : h \in Range(HeadingTexts(fs[p].content))} \ {<<>>}

----------------------------------------------------------------------------
(* validate_file                                                           *)

\* the body of validate_file up to the loop: read the document and split
\* it; an unreadable document has no lines to scan
ValidateEnter(fp, sr, who) ==
  /\ filepath' = fp
  /\ scan_root' = sr
  /\ caller' = who
  /\ issues' = <<>>
  /\ origins' = <<>>
  /\ consulted' = {fp}
  /\ lines' = IF Readable(fp) THEN Split(fs[fp].content, "\n") ELSE <<>>
  /\ line_num' = 1
  /\ matches' = <<>>
  /\ mi' = 0
  /\ pc' = "line"

\* the path an issue reports: str(filepath.relative_to(codex_root))
IssueFile == RelativeStr(filepath, codex_root)

\* whether building the issue record succeeds: relative_to raises ValueError
\* for a document that does not lie under codex_root
CanReport == IsUnder(filepath, codex_root)

\* issues.append({...}); continue -- or the ValueError of relative_to
Emit(target, reason) ==
  IF CanReport
  THEN /\ issues' = Append(issues, [file |-> IssueFile, line |-> line_num,
                                    link |-> target, issue |-> reason])
       /\ origins' = Append(origins, <<line_num, mi>>)
       /\ mi' = mi + 1
       /\ UNCHANGED <<pc, exc>>
  ELSE /\ pc' = "raised"
       /\ exc' = "ValueError"
       /\ UNCHANGED <<issues, origins, mi>>

\* the reference is fine: on to the next match
NoEmit ==
  /\ mi' = mi + 1
  /\ UNCHANGED <<issues, origins, pc, exc>>

\* the current match, its target and the resolved path of its file part
CurTarget   == matches[mi].target
CurSplit    == SplitTarget(CurTarget)
CurResolved == Resolve(PathJoin(Parent(filepath), CurSplit.file_part))
AtMatch     == pc = "match" /\ mi <= Len(matches)

\* line 62: a fence-marker line is skipped
SkipFenceLine ==
  /\ pc = "line" /\ line_num <= Len(lines)
  /\ IsFenceLine(lines[line_num])
  /\ line_num' = line_num + 1
  /\ UNCHANGED <<fs, pc, caller, exc, filepath, scan_root, lines, matches, mi,
                 issues, origins, consulted, mvars, svars>>

\* line 65: any other line is scanned for references
ScanLine ==
  /\ pc = "line" /\ line_num <= Len(lines)
  /\ ~IsFenceLine(lines[line_num])
  /\ matches' = LinkMatches(lines[line_num])
  /\ mi' = 1
  /\ pc' = "match"
  /\ UNCHANGED <<fs, caller, exc, filepath, scan_root, lines, line_num,
                 issues, origins, consulted, mvars, svars>>

\* the matches of the line are used up
EndLine ==
  /\ pc = "match" /\ mi > Len(matches)
  /\ line_num' = line_num + 1
  /\ pc' = "line"
  /\ UNCHANGED <<fs, caller, exc, filepath, scan_root, lines, matches, mi,
                 issues, origins, consulted, mvars, svars>>

\* lines 69-70: an external target is not validated
RefExternal ==
  /\ AtMatch
  /\ IsExternal(CurTarget)
  /\ consulted' = {}
  /\ NoEmit
  /\ UNCHANGED <<fs, caller, filepath, scan_root, lines, line_num, matches, mvars, svars>>

\* lines 72-82: a target that begins with "#" is looked up in the anchors of
\* the document itself
RefSameDoc ==
  /\ AtMatch
  /\ ~IsExternal(CurTarget)
  /\ StartsWith(CurTarget, <<"#">>)
  /\ consulted' = {filepath}
  /\ IF Tail(CurTarget) \notin extract_anchors(filepath)
     THEN Emit(CurTarget, <<"A","n","c","h","o","r"," ","n","o","t"," ","f","o","u","n","d"," ","i","n"," ","f","i","l","e">>)
     ELSE NoEmit
  /\ UNCHANGED <<fs, caller, filepath, scan_root, lines, line_num, matches, mvars, svars>>

\* the suggestions line 96-101 can come to: none when the parent is missing
\* or no sibling's name contains the target's name or is contained in it,
\* else the first such sibling in the order iterdir lists them
Suggestions(resolved) ==
  LET name  == Name(resolved)
      cands == {sib \in Siblings(Parent(resolved)) : Contains(sib, name) \/ Contains(name, sib)}
  IN  IF ~Exists(Parent(resolved)) \/ cands = {}
      THEN {<<>>}
      ELSE {<<" ","(","d","i","d"," ","y","o","u"," ","m","e","a","n"," ",BQ>> \o sib \o <<BQ,"?",")">> : sib \in cands}

\* the reason of line 107
NotFoundReason(file_part, suggestion) ==
  (IF EndsWith(file_part, <<"/">>) THEN <<"D","i","r","e","c","t","o","r","y">> ELSE <<"F","i","l","e">>) \o <<" ","n","o","t"," ","f","o","u","n","d">> \o suggestion

\* lines 92-109: the resolved path does not exist
RefMissing ==
  /\ AtMatch
  /\ ~IsExternal(CurTarget)
  /\ ~StartsWith(CurTarget, <<"#">>)
  /\ ~Exists(CurResolved)
  /\ ~IsFile(Parent(CurResolved))
  /\ consulted' = {CurResolved, Parent(CurResolved)}
  /\ \E suggestion \in Suggestions(CurResolved) :
       Emit(CurTarget, NotFoundReason(CurSplit.file_part, suggestion))
  /\ UNCHANGED <<fs, caller, filepath, scan_root, lines, line_num, matches, mvars, svars>>

\* line 97: the parent of the missing path is a regular file, and iterdir
\* raises NotADirectoryError
RefMissingUnderFile ==
  /\ AtMatch
  /\ ~IsExternal(CurTarget)
  /\ ~StartsWith(CurTarget, <<"#">>)
  /\ ~Exists(CurResolved)
  /\ IsFile(Parent(CurResolved))
  /\ consulted' = {CurResolved, Parent(CurResolved)}
  /\ pc' = "raised"
  /\ exc' = "NotADirectoryError"
  /\ UNCHANGED <<fs, caller, filepath, scan_root, lines, line_num, matches, mi,
                 issues, origins, mvars, svars>>

\* an anchor check that does not ask whether the target is a regular file
NeedsAnchorCheck_any_path(st, resolved) == st.has /\ st.anchor_part # <<>>

\* line 111: the anchors of the target are looked at
NeedsAnchorCheck(st, resolved) == st.has /\ st.anchor_part # <<>> /\ IsFile(resolved)

\* the reason of line 118
AnchorReason(anchor_part) == <<"A","n","c","h","o","r"," ",BQ,"#">> \o anchor_part \o <<BQ," ","n","o","t"," ","f","o","u","n","d"," ","i","n"," ","t","a","r","g","e","t"," ","f","i","l","e">>

\* lines 111-119: the resolved path exists
RefExisting ==
  /\ AtMatch
  /\ ~IsExternal(CurTarget)
  /\ ~StartsWith(CurTarget, <<"#">>)
  /\ Exists(CurResolved)
  /\ consulted' = {CurResolved}
  /\ IF NeedsAnchorCheck(CurSplit, CurResolved)
        /\ CurSplit.anchor_part \notin extract_anchors(CurResolved)
     THEN Emit(CurTarget, AnchorReason(CurSplit.anchor_part))
     ELSE NoEmit
  /\ UNCHANGED <<fs, caller, filepath, scan_root, lines, line_num, matches, mvars, svars>>

\* a scan that puts the issues of a document before those found so far
Extend_prepend(all, new) == new \o all

\* all_issues.extend(issues)
Extend(all, new) == all \o new

\* line 121: return issues -- to main, which extends all_issues and goes on
\* to the next document, or to the other caller
Return ==
  /\ pc = "line" /\ line_num > Len(lines)
  /\ IF caller = "main"
     THEN /\ all_issues' = Extend(all_issues, issues)
          /\ all_origins' = all_origins \o [k \in DOMAIN origins |-> <<fi>> \o origins[k]]
          /\ fi' = fi + 1
          /\ pc' = "main_loop"
     ELSE /\ pc' = "returned"
          /\ UNCHANGED <<all_issues, all_origins, fi>>
  /\ UNCHANGED <<fs, caller, exc, fvars, scan_dir, md_files, link_count, exit_code, svars>>

\* validate_file called by another caller than main
CallValidate(fp, sr) ==
  /\ pc = "idle"
  /\ ValidateEnter(fp, sr, "direct")
  /\ UNCHANGED <<fs, exc, mvars, svars>>

----------------------------------------------------------------------------
(* main                                                                    *)

\* the internal links main counts in a document (lines 144-146)
InternalLinks(content) ==
  Len(SelectSeq(LinkMatches(content), LAMBDA m : ~IsExternal(m.target)))

\* lines 125-127: the directory to scan
ScanDirOf(argv) == IF argv.given THEN PathJoin(codex_root, argv.dir) ELSE codex_root

\* lines 128-130: the directory named on the command line does not exist
MainNoDir(argv) ==
  /\ pc = "idle"
  /\ argv.given /\ ~Exists(ScanDirOf(argv))
  /\ scan_dir' = ScanDirOf(argv)
  /\ pc' = "exit"
  /\ exit_code' = 1
  /\ UNCHANGED <<fs, caller, exc, fvars, md_files, fi, all_issues, all_origins,
                 link_count, svars>>

\* lines 125-136: the documents under the directory, sorted
MainStart(argv) ==
  /\ pc = "idle"
  /\ ~(argv.given /\ ~Exists(ScanDirOf(argv)))
  /\ scan_dir' = ScanDirOf(argv)
  /\ md_files' = SortedPaths(MdFiles(ScanDirOf(argv)))
  /\ fi' = 1
  /\ all_issues' = <<>>
  /\ all_origins' = <<>>
  /\ link_count' = 0
  /\ caller' = "main"
  /\ pc' = "main_loop"
  /\ UNCHANGED <<fs, exc, fvars, exit_code, svars>>

\* lines 139-142: a document main cannot read is passed over
MainSkipUnreadable ==
  /\ pc = "main_loop" /\ fi <= Len(md_files)
  /\ ~Readable(md_files[fi])
  /\ fi' = fi + 1
  /\ UNCHANGED <<fs, pc, caller, exc, fvars, scan_dir, md_files, all_issues,
                 all_origins, link_count, exit_code, svars>>

\* lines 144-148: count the document's internal links and validate it
MainValidate ==
  /\ pc = "main_loop" /\ fi <= Len(md_files)
  /\ Readable(md_files[fi])
  /\ link_count' = link_count + InternalLinks(fs[md_files[fi]].content)
  /\ ValidateEnter(md_files[fi], scan_dir, "main")
  /\ UNCHANGED <<fs, exc, scan_dir, md_files, fi, all_issues, all_origins,
                 exit_code, svars>>

\* lines 151-168: report and exit
MainExit ==
  /\ pc = "main_loop" /\ fi > Len(md_files)
  /\ pc' = "exit"
  /\ exit_code' = IF all_issues # <<>> THEN 1 ELSE 0
  /\ UNCHANGED <<fs, caller, exc, fvars, scan_dir, md_files, fi, all_issues,
                 all_origins, link_count, svars>>

----------------------------------------------------------------------------
(* The inputs: a document put together from blocks, in a small tree.       *)

\* number of blocks a document is put together from
MaxBlocks == 2

\* a heading, and a reference to it and one to no heading, on one line
BlockSameDoc == <<"#"," ","I","n","t","r","o","\n","[","a","]","(","#","i","n","t","r","o",")"," ","[","b","]","(","#","m","i","s","s","i","n","g",")">>
\* a file, an external target, and a file with an anchor, on one line
BlockFile    == <<"[","x","]","(","o","t","h","e","r",".","m","d",")"," ","[","e","]","(","h","t","t","p","s",":","/","/","e",".","c","/",")"," ","[","s","]","(","o","t","h","e","r",".","m","d","#","s","e","c","t","i","o","n",")">>
\* an empty anchor, an anchor no heading gives, and a path below a file
BlockAnchor  == <<"[","p","]","(","o","t","h","e","r",".","m","d","#",")"," ","[","m","]","(","o","t","h","e","r",".","m","d","#","m","i","s","s","i","n","g",")"," ","[","n","]","(","o","t","h","e","r",".","m","d","/","y",")">>
\* a fenced block: a reference between the markers, one after the closing marker
BlockFence   == <<BQ,BQ,BQ,"\n","[","f","]","(","n","o","p","e","/",")","\n",BQ,BQ,BQ," ","[","g","]","(","#","g","o","n","e",")">>
\* a directory, with and without an anchor
BlockDir     == <<"[","d","]","(","s","u","b","d","i","r","/",")"," ","[","h","]","(","s","u","b","d","i","r","#","x",")"," ","[","k","]","(","s","u","b","d","i","r","/","#",")">>

Blocks == {BlockSameDoc, BlockFile, BlockAnchor, BlockFence, BlockDir}

Docs == UNION { {Join(bs, <<"\n">>) : bs \in [1..n -> Blocks]} : n \in 0..MaxBlocks }

docs_dir == codex_root \o << <<"d","o","c","s">> >>
out_dir  == << <<"x">> >>
doc_path == docs_dir \o << <<"a",".","m","d">> >>
out_path == out_dir \o << <<"a",".","m","d">> >>

Dir      == [kind |-> "dir", content |-> <<>>]
Text(c)  == [kind |-> "text", content |-> c]
Binary   == [kind |-> "binary", content |-> <<>>]

\* the content of other.md when it is a text: a heading and a reference to
\* an anchor it does not have
OtherContent == <<"#"," ","S","e","c","t","i","o","n","\n","[","z","]","(","#","n","o","p","e",")">>

\* the content of other-doc.md: a reference to an anchor it does not have
OtherDocContent == <<"[","w","]","(","#","n","o","n","e",")">>

\* the tree: the document docs/a.md under codex_root and a copy of it
\* outside, a directory docs/subdir, and docs/other.md, docs/other-doc.md
\* and docs/other as chosen
MakeFs(doc, otherKind, otherDoc, otherDir) ==
  LET base == { <<>>, codex_root, docs_dir, out_dir, doc_path, out_path,
                docs_dir \o << <<"s","u","b","d","i","r">> >> }
      dom  == base
              \cup (IF otherKind # "absent" THEN {docs_dir \o << <<"o","t","h","e","r",".","m","d">> >>} ELSE {})
              \cup (IF otherDoc THEN {docs_dir \o << <<"o","t","h","e","r","-","d","o","c",".","m","d">> >>} ELSE {})
              \cup (IF otherDir THEN {docs_dir \o << <<"o","t","h","e","r">> >>} ELSE {})
  IN  [p \in dom |->
         IF p \in {doc_path, out_path} THEN Text(doc)
         ELSE IF p = docs_dir \o << <<"o","t","h","e","r",".","m","d">> >>
              THEN (IF otherKind = "text" THEN Text(OtherContent) ELSE Binary)
         ELSE IF p = docs_dir \o << <<"o","t","h","e","r","-","d","o","c",".","m","d">> >> THEN Text(OtherDocContent)
         ELSE Dir]

\* the command lines: no argument, a directory of the codex, a directory
\* that does not exist, an absolute directory outside the codex
Argvs ==
  { [given |-> FALSE, dir |-> <<>>], [given |-> TRUE, dir |-> <<"d","o","c","s">>],
    [given |-> TRUE, dir |-> <<"n","o","p","e">>], [given |-> TRUE, dir |-> <<"/","x">>] }

\* the documents another caller passes: the document, its copy outside the
\* codex, a directory and a missing file
CallPaths == {doc_path, out_path, docs_dir \o << <<"s","u","b","d","i","r">> >>, docs_dir \o << <<"g","o","n","e",".","m","d">> >>}

Init ==
  /\ \E doc \in Docs, otherKind \in {"absent", "text", "binary"},
        otherDoc \in BOOLEAN, otherDir \in BOOLEAN :
       fs = MakeFs(doc, otherKind, otherDoc, otherDir)
  /\ pc = "idle"
  /\ caller = "none"
  /\ exc = "none"
  /\ filepath = <<>> /\ scan_root = <<>> /\ lines = <<>> /\ line_num = 0
  /\ matches = <<>> /\ mi = 0 /\ issues = <<>> /\ origins = <<>> /\ consulted = {}
  /\ scan_dir = <<>> /\ md_files = <<>> /\ fi = 0 /\ all_issues = <<>>
  /\ all_origins = <<>> /\ link_count = 0 /\ exit_code = -1
  /\ heading = <<>> /\ slug1 = <<>> /\ slug2 = <<>> /\ spc = "off"

Next ==
  \/ \E argv \in Argvs : MainNoDir(argv)
  \/ \E argv \in Argvs : MainStart(argv)
  \/ MainSkipUnreadable
  \/ MainValidate
  \/ MainExit
  \/ \E fp \in CallPaths : \E sr \in {codex_root, Parent(fp)} : CallValidate(fp, sr)
  \/ SkipFenceLine
  \/ ScanLine
  \/ EndLine
  \/ RefExternal
  \/ RefSameDoc
  \/ RefMissing
  \/ RefMissingUnderFile
  \/ RefExisting
  \/ Return

Spec == Init /\ [][Next]_vars

----------------------------------------------------------------------------
(* Slugifier driver: slugify a heading, then slugify the result.           *)

\* number of fragments a heading under study is put together from
MaxParts == 4

\* the fragments: markup delimiters, letters of both cases, whitespace,
\* hyphen, punctuation, and the two halves of a link
HeadingParts ==
  { <<"*","*">>, <<"*">>, <<BQ>>, <<"a">>, <<"B">>, <<" ">>, <<"-">>, <<"!">>, <<"[","c","]">>, <<"(","d",")">> }

RECURSIVE Concat(_)
Concat(ps) == IF ps = <<>> THEN <<>> ELSE Head(ps) \o Concat(Tail(ps))

Headings ==
  UNION { {Concat(ps) : ps \in [1..n -> HeadingParts]} : n \in 0..MaxParts }

SlugInit ==
  /\ heading \in Headings
  /\ slug1 = <<>>
  /\ slug2 = <<>>
  /\ spc = "start"
  /\ fs = <<>>
  /\ pc = "off"
  /\ caller = "none"
  /\ exc = "none"
  /\ filepath = <<>> /\ scan_root = <<>> /\ lines = <<>> /\ line_num = 0
  /\ matches = <<>> /\ mi = 0 /\ issues = <<>> /\ origins = <<>> /\ consulted = {}
  /\ scan_dir = <<>> /\ md_files = <<>> /\ fi = 0 /\ all_issues = <<>>
  /\ all_origins = <<>> /\ link_count = 0 /\ exit_code = -1

SlugOnce ==
  /\ spc = "start"
  /\ slug1' = slugify_heading(heading)
  /\ spc' = "once"
  /\ UNCHANGED <<heading, slug2, fs, pc, caller, exc, fvars, mvars>>

SlugTwice ==
  /\ spc = "once"
  /\ slug2' = slugify_heading(slug1)
  /\ spc' = "twice"
  /\ UNCHANGED <<heading, slug1, fs, pc, caller, exc, fvars, mvars>>

SlugNext == SlugOnce \/ SlugTwice

SpecSlug == SlugInit /\ [][SlugNext]_vars

\* C1: slugify_heading is idempotent: slugifying the slug of any heading
\* gives that slug back.
C1_Idempotent == spc = "twice" => slug2 = slug1

\* a heading whose markup was stripped and whose slug differs from it has
\* been slugified twice
C1_Witness ==
  /\ spc = "twice"
  /\ heading = <<"*","*","B","*","*","!">>
  /\ slug1 = <<"b">>

----------------------------------------------------------------------------
(* What the claims speak of, stated on the document and the filesystem.    *)

\* the references of line l, as validate_file finds them
RefsOfLine(l) == LinkMatches(lines[l])

\* a fence-marker line: its trimmed content starts with three backticks
FenceMarker(line) ==
  LET keep == {i \in DOMAIN line : line[i] \notin Whitespace}
  IN  keep # {} /\ Min(keep) + 2 <= Len(line)
      /\ \A d \in 0..2 : line[Min(keep) + d] = BQ

\* an external target
External(t) ==
  \E prefix \in {<<"h","t","t","p",":","/","/">>, <<"h","t","t","p","s",":","/","/">>, <<"m","a","i","l","t","o",":">>} : StartsWith(t, prefix)

\* the reference occurrences of the document on the lines that are no
\* fence markers: the line l, the place k among the matches of the line,
\* and the target
Occurrences ==
  UNION { LET refs == RefsOfLine(l)
          IN  {[l |-> l, k |-> k, target |-> refs[k].target] : k \in DOMAIN refs} :
          l \in {l \in DOMAIN lines : ~FenceMarker(lines[l])} }

TargetOf(o) == o.target

\* the occurrences validate_file is done with
Processed ==
  {o \in Occurrences : \/ o.l < line_num
                       \/ o.l = line_num /\ pc \in {"match", "raised"} /\ o.k < mi}

\* the occurrence an exception ended validate_file at
Failed == IF pc = "raised" THEN {o \in Occurrences : o.l = line_num /\ o.k = mi} ELSE {}

\* the issues appended for occurrence o
IssuesFor(o) == {i \in DOMAIN issues : origins[i] = <<o.l, o.k>>}

\* a cross-document reference: neither external nor a same-document anchor
CrossDoc(o) == ~External(TargetOf(o)) /\ ~StartsWith(TargetOf(o), <<"#">>)

\* the file part and the anchor part of a cross-document target
FilePart(o)   == IF \E j \in DOMAIN o.target : o.target[j] = "#"
                 THEN SubSeq(o.target, 1, Min({j \in DOMAIN o.target : o.target[j] = "#"}) - 1)
                 ELSE o.target
HasAnchor(o)  == \E j \in DOMAIN TargetOf(o) : TargetOf(o)[j] = "#"
AnchorPart(o) == SubSeq(TargetOf(o), Len(FilePart(o)) + 2, Len(TargetOf(o)))

\* the path the file part resolves to, from the document's directory
ResolvedOf(o) == Resolve(PathJoin(Parent(filepath), FilePart(o)))

\* the reasons, as the specification words them
AnchorNotInFile     == <<"A","n","c","h","o","r"," ","n","o","t"," ","f","o","u","n","d"," ","i","n"," ","f","i","l","e">>
AnchorNotInTarget(o) == <<"A","n","c","h","o","r"," ",BQ,"#">> \o AnchorPart(o) \o <<BQ," ","n","o","t"," ","f","o","u","n","d"," ","i","n"," ","t","a","r","g","e","t"," ","f","i","l","e">>

----------------------------------------------------------------------------
(* C2 *)

\* the references C2 is about: cross-document, with an anchor part, into an
\* existing regular file
C2_Case(o) == CrossDoc(o) /\ HasAnchor(o) /\ IsFile(ResolvedOf(o))

\* C2: for a cross-document reference with an anchor part (empty or not)
\* into an existing regular file, the issue "Anchor `#<anchor-part>` not
\* found in target file" is emitted if and only if the anchor part is not
\* among the anchors of the target.
C2_AnchorIssueIff ==
  \A o \in Processed \cup Failed :
    C2_Case(o) =>
      ((\E i \in IssuesFor(o) : issues[i].issue = AnchorNotInTarget(o))
         <=> AnchorPart(o) \notin extract_anchors(ResolvedOf(o)))

----------------------------------------------------------------------------
(* C3 *)

\* C3: a reference whose target begins with "#" gets exactly one issue,
\* "Anchor not found in file", when the text after the "#" is not among the
\* document's own anchors, and none when it is; and its step consults no
\* path but the document.
C3_SameDocAnchor ==
  /\ \A o \in Processed \cup Failed :
       (~External(TargetOf(o)) /\ StartsWith(TargetOf(o), <<"#">>)) =>
         IF Tail(TargetOf(o)) \notin extract_anchors(filepath)
         THEN /\ Cardinality(IssuesFor(o)) = 1
              /\ \A i \in IssuesFor(o) : issues[i].issue = AnchorNotInFile
         ELSE IssuesFor(o) = {}
  /\ (pc = "match" /\ mi > 1 /\ ~External(matches[mi - 1].target)
        /\ StartsWith(matches[mi - 1].target, <<"#">>)) => consulted \subseteq {filepath}

\* the same for the documents that lie under codex_root
C3_UnderCodexRoot == IsUnder(filepath, codex_root) => C3_SameDocAnchor

----------------------------------------------------------------------------
(* C4 *)

\* C4: every issue of the list belongs to one reference occurrence of the
\* document, a non-external one on a line that is no fence marker, whose
\* line and target it carries; no occurrence has two issues; so the issues
\* are at most as many as those occurrences.
C4_OneIssuePerReference ==
  /\ Len(origins) = Len(issues)
  /\ \A i \in DOMAIN issues :
       \E o \in Processed :
         /\ origins[i] = <<o.l, o.k>>
         /\ ~External(TargetOf(o))
         /\ issues[i].line = o.l
         /\ issues[i].link = TargetOf(o)
  /\ \A i, j \in DOMAIN issues : origins[i] = origins[j] => i = j
  /\ Len(issues) <= Cardinality({o \in Occurrences : ~External(TargetOf(o))})

\* a returned list of two issues or more, for a document that also has an
\* external reference and a non-external reference without an issue
C4_Witness ==
  /\ pc = "returned"
  /\ Len(issues) >= 2
  /\ \E o \in Occurrences : External(TargetOf(o))
  /\ \E o \in Occurrences : ~External(TargetOf(o)) /\ IssuesFor(o) = {}

----------------------------------------------------------------------------
(* C5 *)

\* the index in md_files of the document an issue of the scan names
DocIndex(issue) ==
  {k \in DOMAIN md_files : RelativeStr(md_files[k], codex_root) = issue.file}

\* C5: the issues of a document are in non-decreasing line order and, on
\* one line, in the left-to-right order of their matches; the issues of
\* the scan are those of the documents, in the order of the documents.
C5_IssueOrder ==
  /\ \A i, j \in DOMAIN issues :
       i < j => /\ issues[i].line <= issues[j].line
                /\ issues[i].line = origins[i][1] /\ issues[j].line = origins[j][1]
                /\ (issues[i].line = issues[j].line => origins[i][2] < origins[j][2])
  /\ Len(all_origins) = Len(all_issues)
  /\ \A i \in DOMAIN all_issues :
       /\ all_origins[i][1] \in DocIndex(all_issues[i])
       /\ all_origins[i][2] = all_issues[i].line
  /\ \A i, j \in DOMAIN all_issues :
       i < j => \/ all_origins[i][1] < all_origins[j][1]
                \/ /\ all_origins[i][1] = all_origins[j][1]
                   /\ \/ all_origins[i][2] < all_origins[j][2]
                      \/ /\ all_origins[i][2] = all_origins[j][2]
                         /\ all_origins[i][3] < all_origins[j][3]

\* a finished scan with issues of two documents, two of them on one line
\* and two on different lines of one document
C5_Witness ==
  /\ pc = "exit"
  /\ \E i, j \in DOMAIN all_issues : all_issues[i].file # all_issues[j].file
  /\ \E i, j \in DOMAIN all_issues :
       i < j /\ all_issues[i].file = all_issues[j].file /\ all_issues[i].line = all_issues[j].line
  /\ \E i, j \in DOMAIN all_issues :
       i < j /\ all_issues[i].file = all_issues[j].file /\ all_issues[i].line < all_issues[j].line

----------------------------------------------------------------------------
(* C6 *)

\* C6: the reference [x](other.md) to a path that does not exist gets
\* exactly one issue, whose reason starts with "File not found"; and if
\* the parent directory holds a sibling other-doc.md, the reason suggests
\* it ("did you mean" and the name).
C6_FileNotFoundSuggestion ==
  \A o \in Processed \cup Failed :
    (TargetOf(o) = <<"o","t","h","e","r",".","m","d">> /\ ~Exists(ResolvedOf(o))) =>
      /\ Cardinality(IssuesFor(o)) = 1
      /\ \A i \in IssuesFor(o) :
           /\ StartsWith(issues[i].issue, <<"F","i","l","e"," ","n","o","t"," ","f","o","u","n","d">>)
           /\ <<"o","t","h","e","r","-","d","o","c",".","m","d">> \in Siblings(Parent(ResolvedOf(o))) =>
                /\ Contains(issues[i].issue, <<"d","i","d"," ","y","o","u"," ","m","e","a","n">>)
                /\ Contains(issues[i].issue, <<"o","t","h","e","r","-","d","o","c",".","m","d">>)

\* the first half of C6 for the documents that lie under codex_root
C6_UnderCodexRoot ==
  IsUnder(filepath, codex_root) =>
    \A o \in Processed \cup Failed :
      (TargetOf(o) = <<"o","t","h","e","r",".","m","d">> /\ ~Exists(ResolvedOf(o))) =>
        /\ Cardinality(IssuesFor(o)) = 1
        /\ \A i \in IssuesFor(o) : StartsWith(issues[i].issue, <<"F","i","l","e"," ","n","o","t"," ","f","o","u","n","d">>)

----------------------------------------------------------------------------
(* C7 *)

\* C7: a cross-document reference whose file part resolves to an existing
\* directory gets no issue and ends validate_file with no exception,
\* whatever follows the file part: nothing, "#", or "#" and a text.
C7_DirectoryNoIssue ==
  \A o \in Processed \cup Failed :
    (CrossDoc(o) /\ IsDir(ResolvedOf(o))) => (IssuesFor(o) = {} /\ o \notin Failed)

\* a returned, empty issue list for a document with references to a
\* directory with a non-empty anchor and with an empty one
C7_Witness ==
  /\ pc = "returned"
  /\ issues = <<>>
  /\ \E o \in Processed : CrossDoc(o) /\ IsDir(ResolvedOf(o)) /\ HasAnchor(o) /\ AnchorPart(o) # <<>>
  /\ \E o \in Processed : CrossDoc(o) /\ IsDir(ResolvedOf(o)) /\ HasAnchor(o) /\ AnchorPart(o) = <<>>
  /\ \E o \in Processed : CrossDoc(o) /\ IsDir(ResolvedOf(o)) /\ ~HasAnchor(o)

----------------------------------------------------------------------------
(* C8 *)

\* C8: every issue carries the path of the document relative to the
\* scan_root argument, with the line, the target and the reason; and for a
\* readable document under scan_root, making that path never fails.
C8_PathRelativeToScanRoot ==
  /\ \A i \in DOMAIN issues :
       /\ IsUnder(filepath, scan_root)
       /\ issues[i].file = RelativeStr(filepath, scan_root)
       /\ \E o \in Processed :
            origins[i] = <<o.l, o.k>> /\ issues[i].line = o.l /\ issues[i].link = TargetOf(o)
  /\ (Readable(filepath) /\ IsUnder(filepath, scan_root)) => exc # "ValueError"

----------------------------------------------------------------------------
(* C9 *)

\* C9: extract_anchors of a path that is missing or not decodable is the
\* empty set; so every reference with an anchor part into an existing but
\* undecodable regular file gets the anchor-not-found-in-target-file
\* issue; and validate_file of an unreadable document returns no issue.
C9_UnreadableIsData ==
  /\ \A p \in DOMAIN fs \cup CallPaths : ~Readable(p) => extract_anchors(p) = {}
  /\ \A o \in Processed \cup Failed :
       (CrossDoc(o) /\ HasAnchor(o) /\ Exists(ResolvedOf(o))
          /\ fs[ResolvedOf(o)].kind = "binary") =>
         \E i \in IssuesFor(o) : issues[i].issue = AnchorNotInTarget(o)
  /\ (pc = "returned" /\ ~Readable(filepath)) => issues = <<>>

----------------------------------------------------------------------------
(* C10 *)

\* a reference that is broken: its anchor is not in the document, its path
\* does not exist, or its non-empty anchor is not in the target file
Broken(o) ==
  /\ ~External(TargetOf(o))
  /\ IF StartsWith(TargetOf(o), <<"#">>)
     THEN Tail(TargetOf(o)) \notin extract_anchors(filepath)
     ELSE \/ ~Exists(ResolvedOf(o))
          \/ /\ HasAnchor(o) /\ AnchorPart(o) # <<>> /\ IsFile(ResolvedOf(o))
             /\ AnchorPart(o) \notin extract_anchors(ResolvedOf(o))

\* line l lies between two fence-marker lines
BetweenFences(l) ==
  /\ \E a \in DOMAIN lines : a < l /\ FenceMarker(lines[a])
  /\ \E b \in DOMAIN lines : b > l /\ FenceMarker(lines[b])

\* C10: a fence-marker line gets no issue, even with references after the
\* marker; every other line is scanned whatever fence markers precede it,
\* so a broken reference on a line between two markers gets its issue.
C10_FencePerLine ==
  /\ \A i \in DOMAIN issues : ~FenceMarker(lines[issues[i].line])
  /\ \A o \in Processed \cup Failed :
       (BetweenFences(o.l) /\ Broken(o)) => IssuesFor(o) # {}

\* the same for the documents that lie under codex_root, in the runs that
\* iterdir (line 97) does not end with NotADirectoryError
C10_UnderCodexRoot ==
  (IsUnder(filepath, codex_root) /\ exc # "NotADirectoryError") => C10_FencePerLine

====
